---- MODULE Spec2Model ----
(***************************************************************************)
(* A model of subiquity/server/server.py: the application state machine    *)
(* (update_state / status_GET), the start() sequence with the autoinstall  *)
(* source selection and the early-commands gate, the top-level exception   *)
(* handler with its error-commands task, and the controller sweeps.        *)
(*                                                                         *)
(* The server runs on one asyncio loop: every action below is one piece of *)
(* a coroutine between two awaits (or one synchronous callback), so it is  *)
(* atomic with respect to every other action.                              *)
(***************************************************************************)
EXTENDS Integers, Sequences, FiniteSets, TLC

(***************************************************************************)
(* Bounds of the model.                                                    *)
(***************************************************************************)
\* exceptions of background tasks that reach the loop's exception handler
MaxFaults == 2
\* re-executions of the server process (restart_POST, or a reboot of the live system)
MaxRestarts == 1
\* API clients long-polling meta/status
NumClients == 2
\* controllers of the registry that the model instantiates
NumControllers == 4
\* calls of set_installer_password the model follows
MaxPwCalls == 3

Clients == 1..NumClients

(***************************************************************************)
(* Values.                                                                 *)
(***************************************************************************)
\* Python's None, for the string-valued attributes
None == "None"

\* Python truth of a tri-state attribute holding None, True or False
Truthy(v) == v = "True"

\* bool(x) as the attribute value
PyBool(b) == IF b THEN "True" ELSE "False"

\* ApplicationState, in the order of the enumeration
ApplicationState ==
    << "STARTING_UP", "CLOUD_INIT_WAIT", "EARLY_COMMANDS", "WAITING",
       "NEEDS_CONFIRMATION", "RUNNING", "DONE", "ERROR", "EXITED" >>

AppStates == { ApplicationState[i] : i \in DOMAIN ApplicationState }

\* position of a state in the enumeration
Rank(s) == CHOOSE i \in DOMAIN ApplicationState : ApplicationState[i] = s

\* the candidate autoinstall locations
root_autoinstall_path == "autoinstall.yaml"
cloud_autoinstall_path == "run/subiquity/cloud.autoinstall.yaml"
iso_autoinstall_path == "cdrom/autoinstall.yaml"
\* the path an operator names with --autoinstall
arg_autoinstall_path == "arg/autoinstall.yaml"

\* base_relative: the model keeps paths relative to the model root
base_relative(path) == path

Paths ==
    { root_autoinstall_path, arg_autoinstall_path,
      cloud_autoinstall_path, iso_autoinstall_path }

\* content of a path that does not exist
NoFile == 0

(***************************************************************************)
(* Autoinstall documents.  A file holds a document id; yaml.safe_load of   *)
(* the file gives the tree below.  object tells a mapping from a list or a *)
(* scalar; version is the value of the key "version" (has is FALSE when    *)
(* the key is absent, integer is FALSE for a string or a float with a      *)
(* fraction); isec is interactive-sections.                                *)
(***************************************************************************)
NoVersion == [ has |-> FALSE, integer |-> FALSE, val |-> 0 ]

Version(n) == [ has |-> TRUE, integer |-> TRUE, val |-> n ]

Documents ==
    << [ object |-> TRUE, version |-> Version(1),
         early |-> TRUE,  errcmds |-> TRUE,
         isec |-> [has |-> FALSE, val |-> << >>] ],
       [ object |-> TRUE, version |-> Version(1),
         early |-> FALSE, errcmds |-> FALSE,
         isec |-> [has |-> TRUE,  val |-> << "*" >>] ],
       [ object |-> TRUE, version |-> Version(2),
         early |-> TRUE,  errcmds |-> FALSE,
         isec |-> [has |-> FALSE, val |-> << >>] ],
       [ object |-> TRUE, version |-> Version(1),
         early |-> TRUE,  errcmds |-> FALSE,
         isec |-> [has |-> TRUE,  val |-> << "network" >>] ],
       [ object |-> TRUE, version |-> Version(1),
         early |-> FALSE, errcmds |-> FALSE,
         isec |-> [has |-> TRUE,  val |-> << >>] ],
       [ object |-> TRUE, version |-> NoVersion,
         early |-> TRUE,  errcmds |-> FALSE,
         isec |-> [has |-> FALSE, val |-> << >>] ],
       [ object |-> TRUE, version |-> [ has |-> TRUE, integer |-> FALSE, val |-> 1 ],
         early |-> TRUE,  errcmds |-> FALSE,
         isec |-> [has |-> FALSE, val |-> << >>] ],
       [ object |-> FALSE, version |-> NoVersion,
         early |-> FALSE, errcmds |-> FALSE,
         isec |-> [has |-> FALSE, val |-> << >>] ],
       [ object |-> TRUE, version |-> Version(0),
         early |-> TRUE,  errcmds |-> FALSE,
         isec |-> [has |-> FALSE, val |-> << >>] ] >>

DocIds == DOMAIN Documents

\* yaml.safe_load(fp) of a file holding document id
safe_load(content) == Documents[content]

(***************************************************************************)
(* Controllers.  A selection of the registry `controllers`, in its order:  *)
(* forced marks a controller that is never interactive, autoinstall_key    *)
(* may be None.                                                            *)
(***************************************************************************)
Registry ==
    << [ name |-> "Early",    autoinstall_key |-> "early-commands", forced |-> TRUE,
         model_name |-> "None",     endpoint |-> "None" ],
       [ name |-> "Network",  autoinstall_key |-> "network",        forced |-> FALSE,
         model_name |-> "network",  endpoint |-> "network" ],
       [ name |-> "Identity", autoinstall_key |-> "identity",       forced |-> FALSE,
         model_name |-> "identity", endpoint |-> "identity" ],
       [ name |-> "Install",  autoinstall_key |-> "None",           forced |-> FALSE,
         model_name |-> "None",     endpoint |-> "install" ],
       [ name |-> "Late",     autoinstall_key |-> "late-commands",  forced |-> TRUE,
         model_name |-> "None",     endpoint |-> "None" ],
       [ name |-> "Shutdown", autoinstall_key |-> "shutdown",       forced |-> TRUE,
         model_name |-> "None",     endpoint |-> "shutdown" ] >>

\* self.controllers.instances, once load_all has run
instances == SubSeq(Registry, 1, NumControllers)

Names == { instances[i].name : i \in DOMAIN instances }

VARIABLES
    \* ---- the process (lost on re-execution)
    state,                    \* self._state
    state_event,              \* self.state_event: [value: BOOLEAN]
    interactive,              \* self.interactive: None, True, False
    fatal_error,              \* self.fatal_error: 0 (None) or a report id
    running_error_commands,   \* self.running_error_commands
    autoinstall,              \* self.autoinstall: "unset", None or a path
    autoinstall_config,       \* self.autoinstall_config: 0 (None) or a document id
    early_cmds,               \* bool(controllers.Early.cmds)
    error_cmds,               \* bool(controllers.Error.cmds)
    pc,                       \* where the start() coroutine is
    err_pc,                   \* where the _run_error_cmds task is
    start_exc,                \* start() raised and the exception is not yet handled
    exited,                   \* exit() was called
    clients,                  \* the status_GET request of each client
    \* ---- the machine (kept across re-executions)
    state_file,               \* content of the 'server-state' file
    stamp,                    \* the 'early-commands' stamp file exists
    files,                    \* content of each candidate autoinstall path
    opts_autoinstall,         \* opts.autoinstall: None, "" or a path
    \* ---- history
    nfaults,                  \* exceptions handled by this process
    restarts,                 \* re-executions so far
    files0,                   \* files when this process began
    stamp0,                   \* stamp when this process began
    sel_hist,                 \* the select_autoinstall call of this process
    early_runs,               \* Early.run() invocations of this process
    copied,                   \* copy_file_if_exists calls of this process
    \* ---- the controllers
    active,                   \* what each controller reports of itself
    sweep_idx,                \* the controller apply_autoinstall_config is at
    sweep_start,              \* history: interactive() of each when the sweep began
    sweep_log,                \* history: what the sweep did, in order
    sections_reply,           \* history: the replies of interactive_sections_GET
    \* ---- the installer user
    installer_user_name,      \* self.installer_user_name
    installer_user_passwd,    \* self.installer_user_passwd
    installer_user_passwd_kind, \* self.installer_user_passwd_kind
    passfile,                 \* content of the 'installer-user-passwd' file
    default_user,             \* the default user's name in cloud-config, if any
    opts_dry_run,             \* opts.dry_run
    pw_calls,                 \* history: the set_installer_password calls
    passfile0,                \* history: passfile when this process began
    \* ---- the request gate
    updated,                  \* self.updated
    request,                  \* the request the middleware handles, and its response
    marked,                   \* history: the last mark_configured_POST call
    \* ---- history of start()
    start_log                 \* what start() did in this process, in order

procVars ==
    << interactive, fatal_error, running_error_commands, autoinstall,
       autoinstall_config, early_cmds, error_cmds, pc, err_pc, start_exc, exited >>

stateVars == << state, state_event, state_file >>

diskVars == << stamp, files, opts_autoinstall >>

histVars == << nfaults, restarts, files0, stamp0, sel_hist, early_runs, copied >>

ctlVars == << active, sweep_idx, sweep_start, sweep_log, sections_reply >>

pwVars ==
    << installer_user_name, installer_user_passwd, installer_user_passwd_kind,
       passfile, default_user, opts_dry_run, pw_calls, passfile0 >>

reqVars == << updated, request, marked >>

extVars == << pwVars, reqVars >>

vars ==
    << procVars, stateVars, clients, diskVars, histVars, ctlVars, extVars,
       start_log >>

(***************************************************************************)
(* asyncio.Event, as update_state and status_GET use it.  A waiter is a    *)
(* client whose pc is "waiting"; set() completes the future of every       *)
(* waiter, which makes its task runnable ("released"): the task itself     *)
(* runs later, as an action of its own.                                    *)
(***************************************************************************)
\* one waiter's future completed while the shared state was st
Release(w, st) ==
    [ w EXCEPT !.pc = "released",
               !.nrel = @ + 1,
               !.persisted = (st.state_file = st.state) ]

\* Event.set()
EventSet(st) ==
    IF st.event.value
    THEN st
    ELSE [ st EXCEPT
             !.event = [value |-> TRUE],
             !.clients = [ c \in DOMAIN st.clients |->
                             IF st.clients[c].pc = "waiting"
                             THEN Release(st.clients[c], st)
                             ELSE st.clients[c] ] ]

\* Event.clear()
EventClear(st) == [ st EXCEPT !.event = [value |-> FALSE] ]

\* self._state = state
SetState(st, s) == [ st EXCEPT !.state = s ]

\* write_file(self.state_path("server-state"), state.name)
WriteStateFile(st) == [ st EXCEPT !.state_file = st.state ]

\* update_state returning early when the state is the one already held
UpdateStateResult_SkipUnchanged(st, s) ==
    IF s = st.state
    THEN st
    ELSE EventClear(EventSet(WriteStateFile(SetState(st, s))))

\* update_state notifying the waiters before it writes the file
UpdateStateResult_SetBeforeWrite(st, s) ==
    WriteStateFile(EventClear(EventSet(SetState(st, s))))

\* the four statements of update_state, in order
UpdateStateResult(st, s) ==
    EventClear(EventSet(WriteStateFile(SetState(st, s))))

Shared ==
    [ state |-> state, state_file |-> state_file, event |-> state_event,
      clients |-> clients ]

\* history: a client still waiting when an update_state call returns has
\* missed that write
NoteMissed(cs) ==
    [ c \in DOMAIN cs |->
        IF cs[c].pc = "waiting" THEN [ cs[c] EXCEPT !.missed = @ + 1 ] ELSE cs[c] ]

\* SubiquityServer.update_state
update_state(s) ==
    LET r == UpdateStateResult(Shared, s) IN
    /\ state' = r.state
    /\ state_file' = r.state_file
    /\ state_event' = r.event
    /\ clients' = NoteMissed(r.clients)

NoStateWrite == UNCHANGED << stateVars, clients >>

(***************************************************************************)
(* Files.                                                                  *)
(***************************************************************************)
\* os.path.exists(path), for a path that may be "" or one of Paths
exists(fs, path) == path \in DOMAIN fs /\ fs[path] # NoFile

\* copy_file_if_exists(source, target)
copy_file_if_exists(fs, source, target) ==
    IF exists(fs, source) THEN [ fs EXCEPT ![target] = fs[source] ] ELSE fs

\* the candidates with the operator's path ahead of the root file
locations_ArgFirst(opt) ==
    << opt,
       base_relative(root_autoinstall_path),
       base_relative(cloud_autoinstall_path),
       base_relative(iso_autoinstall_path) >>

\* the tuple `locations` of select_autoinstall
locations(opt) ==
    << base_relative(root_autoinstall_path),
       opt,
       base_relative(cloud_autoinstall_path),
       base_relative(iso_autoinstall_path) >>

\* the for/else loop over locations: the index the loop breaks at, 0 when it
\* runs to its end
FirstExisting(locs, fs) ==
    LET hits == { i \in DOMAIN locs : locs[i] # None /\ exists(fs, locs[i]) } IN
    IF hits = {} THEN 0
    ELSE CHOOSE i \in hits : \A j \in hits : i <= j

\* the selection with the loop running on past the first hit: the last
\* existing candidate is the one copied
SelectAmong_LastExisting(locs, fs) ==
    LET hits == { i \in DOMAIN locs : locs[i] # None /\ exists(fs, locs[i]) }
        rootpath == base_relative(root_autoinstall_path)
    IN IF hits = {}
       THEN [ raised |-> FALSE, result |-> None, files |-> fs, copied |-> FALSE ]
       ELSE LET i == CHOOSE k \in hits : \A j \in hits : j <= k IN
            [ raised |-> FALSE, result |-> rootpath,
              files |-> copy_file_if_exists(fs, locs[i], rootpath),
              copied |-> TRUE ]

\* the selection over the candidates, lines 589-604
SelectAmong(locs, fs) ==
    LET i == FirstExisting(locs, fs)
        rootpath == base_relative(root_autoinstall_path)
    IN IF i = 0
       THEN [ raised |-> FALSE, result |-> None, files |-> fs, copied |-> FALSE ]
       ELSE [ raised |-> FALSE, result |-> rootpath,
              files |-> copy_file_if_exists(fs, locs[i], rootpath),
              copied |-> TRUE ]

\* select_autoinstall without lines 582-583: "" is a path like any other
select_autoinstall_NoEmptyCheck(opt, fs) ==
    IF opt # None /\ ~exists(fs, opt)
    THEN [ raised |-> TRUE, result |-> None, files |-> fs, copied |-> FALSE ]
    ELSE SelectAmong(locations(opt), fs)

\* select_autoinstall without lines 584-587: a missing path is passed over
select_autoinstall_MissingArgIgnored(opt, fs) ==
    IF opt = ""
    THEN [ raised |-> FALSE, result |-> None, files |-> fs, copied |-> FALSE ]
    ELSE SelectAmong(locations(opt), fs)

\* SubiquityServer.select_autoinstall: raised, or the value returned, with
\* the files it leaves and whether it called copy_file_if_exists
select_autoinstall(opt, fs) ==
    IF opt = ""
    THEN [ raised |-> FALSE, result |-> None, files |-> fs, copied |-> FALSE ]
    ELSE IF opt # None /\ ~exists(fs, opt)
    THEN [ raised |-> TRUE, result |-> None, files |-> fs, copied |-> FALSE ]
    ELSE SelectAmong(locations(opt), fs)

\* load_cloud_config, as far as the autoinstall goes: cloud-config carrying an
\* autoinstall key (document doc) is written to the cloud autoinstall path
load_cloud_config(fs, doc) ==
    IF doc # NoFile
    THEN [ fs EXCEPT ![base_relative(cloud_autoinstall_path)] = doc ]
    ELSE fs

(***************************************************************************)
(* Loading.  cfg is [config, early_cmds, error_cmds]: the attributes       *)
(* load_autoinstall_config assigns, directly or through setup_autoinstall  *)
(* of the Early and Error controllers.                                     *)
(***************************************************************************)
\* history: a call start() made, and a call made on controller c
Event(op) == [ op |-> op, c |-> "-", doc |-> 0 ]

OnController(op, c) == [ op |-> op, c |-> c, doc |-> 0 ]

\* history: a step of start() that read the tree of document doc
OnDocument(op, doc) == [ op |-> op, c |-> "-", doc |-> doc ]

\* history: op called on every instance, in the order of the loop
OnEveryInstance(op) ==
    [ i \in DOMAIN instances |-> OnController(op, instances[i].name) ]

\* the schema without its bounds on version: any integer passes
base_schema_ok_AnyInteger(config) ==
    LET doc == safe_load(config) IN
    doc.object /\ doc.version.has /\ doc.version.integer

\* jsonschema.validate(self.autoinstall_config, self.base_schema) passes:
\* an object, "version" required, an integer, minimum 1, maximum 1
base_schema_ok(config) ==
    LET doc == safe_load(config) IN
    /\ doc.object
    /\ doc.version.has
    /\ doc.version.integer
    /\ doc.version.val >= 1
    /\ doc.version.val =< 1

\* the load with the file read in the early phase only: the full phase sets
\* up the controllers from the tree already held
load_autoinstall_config_ReadOnce(only_early, auto, fs, cfg) ==
    IF auto = None
    THEN [ raised |-> FALSE, cfg |-> cfg, log |-> << >> ]
    ELSE LET config == IF only_early THEN fs[auto] ELSE cfg.config
             doc == safe_load(config)
             before == << OnController("early_setup", "Reporting"),
                          OnController("early_setup", "Error"),
                          Event("validate") >>
         IN IF only_early
            THEN IF base_schema_ok(config)
                 THEN [ raised |-> FALSE,
                        cfg |-> [ config |-> config, early_cmds |-> doc.early,
                                  error_cmds |-> doc.errcmds ],
                        log |-> Append(before, Event("Early.setup_autoinstall")) ]
                 ELSE [ raised |-> TRUE,
                        cfg |-> [ cfg EXCEPT !.config = config,
                                             !.error_cmds = doc.errcmds ],
                        log |-> before ]
            ELSE [ raised |-> FALSE,
                   cfg |-> [ config |-> config, early_cmds |-> doc.early,
                             error_cmds |-> doc.errcmds ],
                   log |-> OnEveryInstance("setup_autoinstall") ]

\* SubiquityServer.load_autoinstall_config
load_autoinstall_config(only_early, auto, fs, cfg) ==
    IF auto = None
    THEN [ raised |-> FALSE, cfg |-> cfg, log |-> << >> ]
    ELSE LET config == fs[auto]
             doc == safe_load(config)
             before == << OnController("early_setup", "Reporting"),
                          OnController("early_setup", "Error"),
                          Event("validate") >>
         IN IF only_early
            THEN IF base_schema_ok(config)
                 THEN [ raised |-> FALSE,
                        cfg |-> [ config |-> config, early_cmds |-> doc.early,
                                  error_cmds |-> doc.errcmds ],
                        log |-> Append(before, Event("Early.setup_autoinstall")) ]
                 ELSE [ raised |-> TRUE,
                        cfg |-> [ cfg EXCEPT !.config = config,
                                             !.error_cmds = doc.errcmds ],
                        log |-> before ]
            ELSE [ raised |-> FALSE,
                   cfg |-> [ config |-> config, early_cmds |-> doc.early,
                             error_cmds |-> doc.errcmds ],
                   log |-> OnEveryInstance("setup_autoinstall") ]

\* the derivation taking a config that has the key for an interactive one
derive_interactive_KeyPresent(config) ==
    IF config # 0
    THEN PyBool(safe_load(config).isec.has)
    ELSE "True"

\* start(), lines 681-684: the value given to self.interactive
derive_interactive(config) ==
    IF config # 0
    THEN LET isec == safe_load(config).isec IN
         PyBool(isec.has /\ isec.val # << >>)
    ELSE "True"

\* the gate without line 672: the stamp is not looked at
early_gate_IgnoresStamp(config, cmds, stampExists) ==
    config # 0 /\ cmds

\* start(), lines 670-672: the early-commands gate
early_gate(config, cmds, stampExists) ==
    config # 0 /\ cmds /\ ~stampExists

Cfg ==
    [ config |-> autoinstall_config, early_cmds |-> early_cmds,
      error_cmds |-> error_cmds ]

(***************************************************************************)
(* The installer user's password.  Names, passwords and the content of the *)
(* 'installer-user-passwd' file are sequences of characters; the empty     *)
(* sequence stands for None in the attributes, and for a file that does    *)
(* not exist (what is written always holds a colon).                       *)
(***************************************************************************)
\* None, for installer_user_name and installer_user_passwd
NoStr == << >>

\* state_path("installer-user-passwd") does not exist
NoPassFile == << >>

\* names cloud-config may give the default user: a login name holds no colon
UserNames == { << "u" >> }

\* os.environ["USER"]
EnvUser == << "e" >>

\* names a passfile left by an earlier boot may hold: the default user of
\* that boot, or $USER of a dry run
StampNames == UserNames \cup { EnvUser }

\* values of rand_user_password()
RandPasswords == { << "p" >>, << "q" >> }

\* what get_installer_password_from_cloudinit_log() may return: None, or the
\* rest of the "installer:" line, which may hold a colon
LogPasswords == { NoStr, << "l" >>, << "l", ":", "l" >> }

\* PasswordKind
PasswordKind == { "NONE", "UNKNOWN", "KNOWN" }

\* lines 632-633: name + ":" + passwd
passfile_contents(name, passwd) == name \o << ":" >> \o passwd

\* contents.split(":", 1): the parts around the first colon; without a colon
\* there is one part and the assignment to two names raises
split_once(contents) ==
    LET colons == { i \in DOMAIN contents : contents[i] = ":" } IN
    IF colons = {}
    THEN [ ok |-> FALSE, name |-> contents, passwd |-> NoStr ]
    ELSE LET i == CHOOSE k \in colons : \A j \in colons : k <= j IN
         [ ok |-> TRUE,
           name |-> SubSeq(contents, 1, i - 1),
           passwd |-> SubSeq(contents, i + 1, Len(contents)) ]

\* what a call finds outside the server: $USER, whether /etc/shadow holds a
\* password for the user, the password in cloud-init's log, whether the user
\* has ssh keys, whether chpasswd succeeds, what rand_user_password() gives
PasswordEnvs ==
    [ has_password : BOOLEAN, log_passwd : LogPasswords, has_keys : BOOLEAN,
      chpasswd_ok : BOOLEAN, rand : RandPasswords ]

\* the system as a call reads it: a call that returns at line 616 or 627
\* reads nothing of it
EnvsFor(obj, file) ==
    IF obj.name = NoStr \/ file # NoPassFile
    THEN { [ has_password |-> FALSE, log_passwd |-> NoStr, has_keys |-> FALSE,
             chpasswd_ok |-> FALSE, rand |-> << "p" >> ] }
    ELSE PasswordEnvs

\* the result of a call that leaves obj = [name, passwd, kind] and the file
PwResult(obj, file, raised, chpasswd, wrote, generated) ==
    [ name |-> obj.name, passwd |-> obj.passwd, kind |-> obj.kind,
      passfile |-> file, raised |-> raised, chpasswd |-> chpasswd,
      wrote |-> wrote, generated |-> generated ]

\* use_passwd(passwd), lines 629-633
use_passwd(obj, passwd) ==
    [ obj |-> [ obj EXCEPT !.passwd = passwd, !.kind = "KNOWN" ],
      file |-> passfile_contents(obj.name, passwd) ]

\* lines 635-660: no passfile exists
provision_password(obj, file, dry_run, env) ==
    IF dry_run
    THEN LET u == use_passwd([ obj EXCEPT !.name = EnvUser ], env.rand) IN
         PwResult(u.obj, u.file, FALSE, FALSE, TRUE, TRUE)
    ELSE IF env.has_password
    THEN IF env.log_passwd # NoStr
         THEN LET u == use_passwd(obj, env.log_passwd) IN
              PwResult(u.obj, u.file, FALSE, FALSE, TRUE, FALSE)
         ELSE PwResult([ obj EXCEPT !.kind = "UNKNOWN" ], file,
                       FALSE, FALSE, FALSE, FALSE)
    ELSE IF ~env.has_keys
    THEN IF env.chpasswd_ok
         THEN LET u == use_passwd(obj, env.rand) IN
              PwResult(u.obj, u.file, FALSE, TRUE, TRUE, TRUE)
         ELSE PwResult([ obj EXCEPT !.kind = "NONE" ], file,
                       FALSE, TRUE, FALSE, TRUE)
    ELSE PwResult([ obj EXCEPT !.kind = "NONE" ], file,
                  FALSE, FALSE, FALSE, FALSE)

\* the call without lines 620-627: an existing passfile is not looked at
set_installer_password_NoStampCheck(obj, file, dry_run, env) ==
    IF obj.name = NoStr
    THEN PwResult(obj, file, FALSE, FALSE, FALSE, FALSE)
    ELSE provision_password(obj, file, dry_run, env)

\* the call with the passfile looked at before the user name
set_installer_password_StampFirst(obj, file, dry_run, env) ==
    IF file # NoPassFile
    THEN LET parts == split_once(file) IN
         IF parts.ok
         THEN PwResult([ name |-> parts.name, passwd |-> parts.passwd,
                         kind |-> "KNOWN" ],
                       file, FALSE, FALSE, FALSE, FALSE)
         ELSE PwResult([ obj EXCEPT !.kind = "KNOWN" ], file,
                       TRUE, FALSE, FALSE, FALSE)
    ELSE IF obj.name = NoStr
    THEN PwResult(obj, file, FALSE, FALSE, FALSE, FALSE)
    ELSE provision_password(obj, file, dry_run, env)

\* SubiquityServer.set_installer_password
set_installer_password(obj, file, dry_run, env) ==
    IF obj.name = NoStr
    THEN PwResult(obj, file, FALSE, FALSE, FALSE, FALSE)
    ELSE IF file # NoPassFile
    THEN LET parts == split_once(file) IN
         IF parts.ok
         THEN PwResult([ name |-> parts.name, passwd |-> parts.passwd,
                         kind |-> "KNOWN" ],
                       file, FALSE, FALSE, FALSE, FALSE)
         ELSE PwResult([ obj EXCEPT !.kind = "KNOWN" ], file,
                       TRUE, FALSE, FALSE, FALSE)
    ELSE provision_password(obj, file, dry_run, env)

(***************************************************************************)
(* start().  Each action is the code between two awaits.                   *)
(***************************************************************************)
\* what cloud-config may carry for this boot: no autoinstall key, or a document
CloudConfigs == { NoFile, 2 }

\* lines 663-664: load_all, then await start_api_server()
StartLoadAll ==
    /\ pc = "init" /\ ~exited
    /\ pc' = "api"
    /\ UNCHANGED << interactive, fatal_error, running_error_commands, autoinstall,
                    autoinstall_config, early_cmds, error_cmds, err_pc,
                    start_exc, exited >>
    /\ NoStateWrite
    /\ UNCHANGED << diskVars, histVars >>
    /\ UNCHANGED ctlVars
    /\ UNCHANGED extVars
    /\ start_log' = start_log \o << Event("load_all") >>

\* line 665-666: CLOUD_INIT_WAIT, then await wait_for_cloudinit()
StartCloudInitWait ==
    /\ pc = "api" /\ ~exited
    /\ update_state("CLOUD_INIT_WAIT")
    /\ pc' = "cloudinit"
    /\ UNCHANGED << interactive, fatal_error, running_error_commands, autoinstall,
                    autoinstall_config, early_cmds, error_cmds, err_pc,
                    start_exc, exited >>
    /\ UNCHANGED << diskVars, histVars >>
    /\ UNCHANGED ctlVars
    /\ UNCHANGED extVars
    /\ start_log' = start_log \o << Event("start_api_server"), Event("CLOUD_INIT_WAIT"),
                           Event("wait_for_cloudinit") >>

\* the full phase with load_serialized_state after the WAITING write
FullPhase_WaitingBeforeLoadState(auto, fs, cfg) ==
    LET ld == load_autoinstall_config(FALSE, auto, fs, cfg) IN
    [ cfg |-> ld.cfg, interactive |-> derive_interactive(ld.cfg.config),
      log |-> << OnDocument("load_full", ld.cfg.config) >> \o ld.log
              \o << OnDocument("interactive", ld.cfg.config) >>
              \o << Event("WAITING") >> \o OnEveryInstance("load_state")
              \o << Event("super_start") >> ]

\* lines 680-689 as a function: the full-phase load, the derivation and, in
\* the order of the calls, what is done up to `await super().start()`
FullPhase(auto, fs, cfg) ==
    LET ld == load_autoinstall_config(FALSE, auto, fs, cfg) IN
    [ cfg |-> ld.cfg, interactive |-> derive_interactive(ld.cfg.config),
      log |-> << OnDocument("load_full", ld.cfg.config) >> \o ld.log
              \o << OnDocument("interactive", ld.cfg.config) >>
              \o OnEveryInstance("load_state")
              \o << Event("WAITING"), Event("super_start") >> ]

\* lines 668-673 as a function of the files, the option and the stamp: what
\* start() has done when it next awaits or raises
Configure(fs, opt, stampExists, cfg) ==
    LET sel == select_autoinstall(opt, fs)
        sel_log == << Event("select_autoinstall") >>
    IN
    IF sel.raised
    THEN [ outcome |-> "raised", autoinstall |-> "unset", cfg |-> cfg,
           interactive |-> None, files |-> sel.files, copied |-> sel.copied,
           sel_raised |-> TRUE, sel_result |-> None, log |-> sel_log ]
    ELSE LET ld == load_autoinstall_config(TRUE, sel.result, sel.files, cfg)
             ld_log == sel_log \o << OnDocument("load_early", ld.cfg.config) >>
                              \o ld.log
         IN
         IF ld.raised
         THEN [ outcome |-> "raised", autoinstall |-> sel.result, cfg |-> ld.cfg,
                interactive |-> None, files |-> sel.files, copied |-> sel.copied,
                sel_raised |-> FALSE, sel_result |-> sel.result, log |-> ld_log ]
         ELSE IF early_gate(ld.cfg.config, ld.cfg.early_cmds, stampExists)
         THEN [ outcome |-> "early", autoinstall |-> sel.result, cfg |-> ld.cfg,
                interactive |-> None, files |-> sel.files, copied |-> sel.copied,
                sel_raised |-> FALSE, sel_result |-> sel.result,
                log |-> Append(ld_log, Event("EARLY_COMMANDS")) ]
         ELSE LET full == FullPhase(sel.result, sel.files, ld.cfg) IN
              [ outcome |-> "waiting", autoinstall |-> sel.result,
                cfg |-> full.cfg, interactive |-> full.interactive,
                files |-> sel.files, copied |-> sel.copied,
                sel_raised |-> FALSE, sel_result |-> sel.result,
                log |-> ld_log \o full.log ]

\* how `cloud-init status --wait` may end for this process: not "status:
\* done" (or a timeout), or done with cloud-config carrying no autoinstall
\* key or a document
CloudInitOutcomes ==
    { [ done |-> FALSE, doc |-> NoFile ] } \cup
    { [ done |-> TRUE, doc |-> d ] : d \in CloudConfigs }

\* wait_for_cloudinit, lines 553-571, with what load_cloud_config assigns:
\* the files and installer_user_name it leaves
wait_for_cloudinit(dry_run, ci, fs, name, user) ==
    IF dry_run \/ ~ci.done
    THEN [ files |-> fs, name |-> name ]
    ELSE [ files |-> load_cloud_config(fs, ci.doc), name |-> user ]

\* the installer user attributes, as the record set_installer_password takes
InstallerUser ==
    [ name |-> installer_user_name, passwd |-> installer_user_passwd,
      kind |-> installer_user_passwd_kind ]

\* history: one set_installer_password call
PwCall(obj, file, pw) ==
    [ proc |-> restarts, name_in |-> obj.name, file_in |-> file,
      name |-> pw.name, passwd |-> pw.passwd, kind |-> pw.kind,
      file_out |-> pw.passfile, chpasswd |-> pw.chpasswd,
      wrote |-> pw.wrote, generated |-> pw.generated ]

\* the assignments of a set_installer_password call
ApplyPassword(obj, pw) ==
    /\ installer_user_name' = pw.name
    /\ installer_user_passwd' = pw.passwd
    /\ installer_user_passwd_kind' = pw.kind
    /\ passfile' = pw.passfile
    /\ pw_calls' = Append(pw_calls, PwCall(obj, passfile, pw))
    /\ UNCHANGED << default_user, opts_dry_run, passfile0 >>

\* start() raising at line 667, before select_autoinstall
PasswordRaised(fs, cfg) ==
    [ outcome |-> "raised", autoinstall |-> "unset", cfg |-> cfg,
      interactive |-> None, files |-> fs, copied |-> FALSE,
      sel_raised |-> FALSE, sel_result |-> None, log |-> << >> ]

\* wait_for_cloudinit() returns; lines 667-689 up to the next await
StartConfigure ==
    /\ pc = "cloudinit" /\ ~exited
    /\ \E ci \in CloudInitOutcomes :
       \E env \in EnvsFor([ name |-> wait_for_cloudinit(opts_dry_run, ci, files,
                                     installer_user_name, default_user).name ],
                          passfile) :
         LET w == wait_for_cloudinit(opts_dry_run, ci, files,
                                     installer_user_name, default_user)
             obj == [ InstallerUser EXCEPT !.name = w.name ]
             pw == set_installer_password(obj, passfile, opts_dry_run, env)
             r == IF pw.raised
                  THEN PasswordRaised(w.files, Cfg)
                  ELSE Configure(w.files, opts_autoinstall, stamp, Cfg)
         IN /\ ApplyPassword(obj, pw)
            /\ start_log' = start_log \o << Event("set_installer_password") >>
                                      \o r.log
            /\ files' = r.files
            /\ copied' = copied + (IF r.copied THEN 1 ELSE 0)
            /\ sel_hist' = [ called |-> ~pw.raised,
                             files_in |-> w.files,
                             files_out |-> r.files,
                             raised |-> r.sel_raised,
                             result |-> r.sel_result ]
            /\ autoinstall' = r.autoinstall
            /\ autoinstall_config' = r.cfg.config
            /\ early_cmds' = r.cfg.early_cmds
            /\ error_cmds' = r.cfg.error_cmds
            /\ interactive' = r.interactive
            /\ CASE r.outcome = "raised" ->
                      /\ pc' = "failed" /\ start_exc' = TRUE /\ NoStateWrite
                 [] r.outcome = "early" ->
                      /\ pc' = "early_sleep" /\ start_exc' = start_exc
                      /\ update_state("EARLY_COMMANDS")
                 [] OTHER ->
                      /\ pc' = "super_start" /\ start_exc' = start_exc
                      /\ update_state("WAITING")
    /\ UNCHANGED << fatal_error, running_error_commands, err_pc, exited >>
    /\ UNCHANGED << stamp, opts_autoinstall >>
    /\ UNCHANGED << nfaults, restarts, files0, stamp0, early_runs >>
    /\ UNCHANGED ctlVars
    /\ UNCHANGED reqVars

\* a further call of set_installer_password in the same process
SetInstallerPasswordAgain ==
    /\ pc \notin { "init", "api", "cloudinit" } /\ ~exited
    /\ Len(pw_calls) < MaxPwCalls
    /\ \E env \in EnvsFor(InstallerUser, passfile) :
         LET pw == set_installer_password(InstallerUser, passfile,
                                          opts_dry_run, env)
         IN /\ ~pw.raised
            /\ ApplyPassword(InstallerUser, pw)
    /\ UNCHANGED << procVars, stateVars, clients, diskVars, histVars, ctlVars >>
    /\ UNCHANGED reqVars
    /\ UNCHANGED start_log

\* line 676-677: the sleep is over, Early.run() is invoked
StartEarlyRun ==
    /\ pc = "early_sleep" /\ ~exited
    /\ pc' = "early_run"
    /\ early_runs' = early_runs + 1
    /\ UNCHANGED << interactive, fatal_error, running_error_commands, autoinstall,
                    autoinstall_config, early_cmds, error_cmds, err_pc,
                    start_exc, exited >>
    /\ NoStateWrite
    /\ UNCHANGED << diskVars, nfaults, restarts, files0, stamp0, sel_hist, copied >>
    /\ UNCHANGED ctlVars
    /\ UNCHANGED extVars
    /\ start_log' = start_log \o << Event("Early.run") >>

\* documents the early commands may leave at the root autoinstall path
EarlyRewrites == { 5, 3 }

\* lines 677-679: Early.run() returns, the stamp is written; the commands
\* may have rewritten the root autoinstall file
StartEarlyDone ==
    /\ pc = "early_run" /\ ~exited
    /\ \E doc \in { files[root_autoinstall_path] } \cup EarlyRewrites :
         files' = [ files EXCEPT ![root_autoinstall_path] = doc ]
    /\ stamp' = TRUE
    /\ pc' = "early_stamped"
    /\ UNCHANGED << interactive, fatal_error, running_error_commands, autoinstall,
                    autoinstall_config, early_cmds, error_cmds, err_pc,
                    start_exc, exited >>
    /\ NoStateWrite
    /\ UNCHANGED << opts_autoinstall, histVars >>
    /\ UNCHANGED ctlVars
    /\ UNCHANGED extVars
    /\ start_log' = start_log \o << Event("stamp") >>

\* the stamp written in a finally clause: Early.run() raises, the stamp is
\* there all the same
StartEarlyRaise_Stamped ==
    /\ pc = "early_run" /\ ~exited
    /\ pc' = "failed"
    /\ start_exc' = TRUE
    /\ stamp' = TRUE
    /\ UNCHANGED << interactive, fatal_error, running_error_commands, autoinstall,
                    autoinstall_config, early_cmds, error_cmds, err_pc, exited >>
    /\ NoStateWrite
    /\ UNCHANGED << files, opts_autoinstall, histVars >>
    /\ UNCHANGED ctlVars
    /\ UNCHANGED extVars
    /\ UNCHANGED start_log

\* line 677: Early.run() raises, and start() with it
StartEarlyRaise ==
    /\ pc = "early_run" /\ ~exited
    /\ pc' = "failed"
    /\ start_exc' = TRUE
    /\ UNCHANGED << interactive, fatal_error, running_error_commands, autoinstall,
                    autoinstall_config, early_cmds, error_cmds, err_pc, exited >>
    /\ NoStateWrite
    /\ UNCHANGED << diskVars, histVars >>
    /\ UNCHANGED ctlVars
    /\ UNCHANGED extVars
    /\ UNCHANGED start_log

\* lines 680-689 after the second sleep
StartFullPhase ==
    /\ pc = "early_stamped" /\ ~exited
    /\ LET full == FullPhase(autoinstall, files, Cfg) IN
         /\ autoinstall_config' = full.cfg.config
         /\ early_cmds' = full.cfg.early_cmds
         /\ error_cmds' = full.cfg.error_cmds
         /\ interactive' = full.interactive
         /\ start_log' = start_log \o full.log
    /\ update_state("WAITING")
    /\ pc' = "super_start"
    /\ UNCHANGED << fatal_error, running_error_commands, autoinstall, err_pc,
                    start_exc, exited >>
    /\ UNCHANGED << diskVars, histVars >>
    /\ UNCHANGED ctlVars
    /\ UNCHANGED extVars

(***************************************************************************)
(* Controllers: interactive(), the apply_autoinstall_config sweep and      *)
(* interactive_sections_GET.                                               *)
(***************************************************************************)
\* SubiquityController.interactive() of the controller described by d
interactive_of(d, act, config) ==
    IF d.forced THEN FALSE
    ELSE IF config = 0 THEN act[d.name]
    ELSE LET isec == safe_load(config).isec
             i_sections == IF isec.has THEN isec.val ELSE << >>
             named == { i_sections[k] : k \in DOMAIN i_sections }
         IN IF "*" \in named \/ d.autoinstall_key \in named
            THEN act[d.name]
            ELSE FALSE

\* interactive() of every instance, now
InteractiveNow ==
    [ n \in Names |->
        LET d == CHOOSE e \in { instances[i] : i \in DOMAIN instances } : e.name = n
        IN interactive_of(d, active, autoinstall_config) ]

\* the sweep deciding from what interactive() said when the sweep began
skip_controller_cached(d, now, atStart) == atStart[d.name]

\* lines 458-463: whether the sweep skips the controller it has reached
skip_controller(d, now, atStart) == now[d.name]

\* the first controller from index i on that the loop does not skip, or
\* Len(instances) + 1 when the loop ends
SweepTarget(i, now, atStart) ==
    LET stops == { j \in i..Len(instances) :
                     ~skip_controller(instances[j], now, atStart) }
    IN IF stops = {} THEN Len(instances) + 1
       ELSE CHOOSE j \in stops : \A k \in stops : j <= k

SweepEntry(op, j, now) ==
    [ op |-> op, c |-> instances[j].name, inter |-> now[instances[j].name] ]

\* lines 457-464 from index i: the skips, then the call of
\* apply_autoinstall_config on the first controller not skipped
RunSweep(i, now, atStart) ==
    LET j == SweepTarget(i, now, atStart)
        skips == [ k \in 1..(j - i) |-> SweepEntry("skip", i + k - 1, now) ]
    IN /\ sweep_idx' = j
       /\ IF j <= Len(instances)
          THEN /\ sweep_log' = sweep_log \o skips \o << SweepEntry("apply", j, now) >>
               /\ pc' = "applying"
          ELSE /\ sweep_log' = sweep_log \o skips
               /\ pc' = "done"

\* line 689-690: super().start() returns, the sweep begins
StartSweep ==
    /\ pc = "super_start" /\ ~exited
    /\ sweep_start' = InteractiveNow
    /\ RunSweep(1, InteractiveNow, InteractiveNow)
    /\ UNCHANGED << interactive, fatal_error, running_error_commands, autoinstall,
                    autoinstall_config, early_cmds, error_cmds, err_pc,
                    start_exc, exited >>
    /\ NoStateWrite
    /\ UNCHANGED << diskVars, histVars, active, sections_reply >>
    /\ UNCHANGED extVars
    /\ UNCHANGED start_log

\* lines 464-465: apply_autoinstall_config returns, configured() is called
SweepApplyDone ==
    /\ pc = "applying" /\ ~exited
    /\ pc' = "configuring"
    /\ sweep_log' = Append(sweep_log, SweepEntry("configured", sweep_idx, InteractiveNow))
    /\ UNCHANGED << interactive, fatal_error, running_error_commands, autoinstall,
                    autoinstall_config, early_cmds, error_cmds, err_pc,
                    start_exc, exited >>
    /\ NoStateWrite
    /\ UNCHANGED << diskVars, histVars, active, sweep_idx, sweep_start,
                    sections_reply >>
    /\ UNCHANGED extVars
    /\ UNCHANGED start_log

\* the fault of apply_autoinstall_config swallowed: configured() is called
\* all the same and the loop goes on
SweepApplyRaise_Swallowed ==
    /\ pc = "applying" /\ ~exited
    /\ pc' = "configuring"
    /\ sweep_log' = sweep_log
                      \o << SweepEntry("raise", sweep_idx, InteractiveNow),
                            SweepEntry("configured", sweep_idx, InteractiveNow) >>
    /\ UNCHANGED << interactive, fatal_error, running_error_commands, autoinstall,
                    autoinstall_config, early_cmds, error_cmds, err_pc,
                    start_exc, exited >>
    /\ NoStateWrite
    /\ UNCHANGED << diskVars, histVars, active, sweep_idx, sweep_start,
                    sections_reply >>
    /\ UNCHANGED extVars
    /\ UNCHANGED start_log

\* line 464: apply_autoinstall_config raises, and start() with it
SweepApplyRaise ==
    /\ pc = "applying" /\ ~exited
    /\ pc' = "failed"
    /\ start_exc' = TRUE
    /\ sweep_log' = Append(sweep_log, SweepEntry("raise", sweep_idx, InteractiveNow))
    /\ UNCHANGED << interactive, fatal_error, running_error_commands, autoinstall,
                    autoinstall_config, early_cmds, error_cmds, err_pc, exited >>
    /\ NoStateWrite
    /\ UNCHANGED << diskVars, histVars, active, sweep_idx, sweep_start,
                    sections_reply >>
    /\ UNCHANGED extVars
    /\ UNCHANGED start_log

\* line 465 and on: configured() returns, the loop goes on
SweepConfiguredDone ==
    /\ pc = "configuring" /\ ~exited
    /\ RunSweep(sweep_idx + 1, InteractiveNow, sweep_start)
    /\ UNCHANGED << interactive, fatal_error, running_error_commands, autoinstall,
                    autoinstall_config, early_cmds, error_cmds, err_pc,
                    start_exc, exited >>
    /\ NoStateWrite
    /\ UNCHANGED << diskVars, histVars, active, sweep_start, sections_reply >>
    /\ UNCHANGED extVars
    /\ UNCHANGED start_log

\* a controller that is not forced changes what it reports of itself
Toggle(n) ==
    /\ pc # "init" /\ ~exited
    /\ \E i \in DOMAIN instances : instances[i].name = n /\ ~instances[i].forced
    /\ active' = [ active EXCEPT ![n] = ~@ ]
    /\ UNCHANGED << procVars, stateVars, clients, diskVars, histVars,
                    sweep_idx, sweep_start, sweep_log, sections_reply >>
    /\ UNCHANGED extVars
    /\ UNCHANGED start_log

\* the expansion without line 162: every controller that has a key
interactive_sections_GET_AllKeys(config, insts, now) ==
    IF config = 0
    THEN [ has |-> FALSE, val |-> << >> ]
    ELSE LET i_sections == safe_load(config).isec IN
         IF i_sections.has /\ i_sections.val = << "*" >>
         THEN LET kept == SelectSeq(insts, LAMBDA d : d.autoinstall_key # None)
              IN [ has |-> TRUE,
                   val |-> [ k \in DOMAIN kept |-> kept[k].autoinstall_key ] ]
         ELSE i_sections

\* MetaController.interactive_sections_GET: has is FALSE for None
interactive_sections_GET(config, insts, now) ==
    IF config = 0
    THEN [ has |-> FALSE, val |-> << >> ]
    ELSE LET i_sections == safe_load(config).isec IN
         IF i_sections.has /\ i_sections.val = << "*" >>
         THEN LET kept == SelectSeq(insts,
                             LAMBDA d : now[d.name] /\ d.autoinstall_key # None)
              IN [ has |-> TRUE,
                   val |-> [ k \in DOMAIN kept |-> kept[k].autoinstall_key ] ]
         ELSE i_sections

NoReply ==
    [ called |-> FALSE, has |-> FALSE, val |-> << >>, config |-> 0, seen |-> {} ]

\* a client calls interactive_sections_GET; the model keeps the last two replies
InteractiveSectionsGet ==
    /\ ~exited
    /\ pc \notin { "init", "api" }
    /\ LET r == interactive_sections_GET(autoinstall_config, instances, InteractiveNow)
       IN sections_reply' =
            << sections_reply[2],
               [ called |-> TRUE, has |-> r.has, val |-> r.val,
                 config |-> autoinstall_config,
                 seen |-> { n \in Names : InteractiveNow[n] } ] >>
    /\ UNCHANGED << procVars, stateVars, clients, diskVars, histVars,
                    active, sweep_idx, sweep_start, sweep_log >>
    /\ UNCHANGED extVars
    /\ UNCHANGED start_log

(***************************************************************************)
(* The top-level exception handler and the error-commands task.            *)
(***************************************************************************)
\* the handler leaving the state alone in an interactive run
exception_handler_ReportOnly ==
    /\ nfaults' = nfaults + 1
    /\ fatal_error' = nfaults + 1
    /\ NoStateWrite
    /\ IF ~running_error_commands
       THEN /\ running_error_commands' = TRUE
            /\ err_pc' = "info"
       ELSE UNCHANGED << running_error_commands, err_pc >>

\* the handler without the guard of line 421: every fault starts a task
exception_handler_NoGuard ==
    /\ nfaults' = nfaults + 1
    /\ fatal_error' = nfaults + 1
    /\ IF Truthy(interactive) THEN update_state("ERROR") ELSE NoStateWrite
    /\ running_error_commands' = TRUE
    /\ err_pc' = "info"

\* SubiquityServer._exception_handler, for a context that holds an exception
exception_handler ==
    /\ nfaults' = nfaults + 1
    /\ fatal_error' = nfaults + 1
    /\ IF Truthy(interactive) THEN update_state("ERROR") ELSE NoStateWrite
    /\ IF ~running_error_commands
       THEN /\ running_error_commands' = TRUE
            /\ err_pc' = "info"
       ELSE UNCHANGED << running_error_commands, err_pc >>

\* the exception start() raised reaches the handler
StartFault ==
    /\ start_exc /\ ~exited
    /\ start_exc' = FALSE
    /\ exception_handler
    /\ UNCHANGED << interactive, autoinstall, autoinstall_config, early_cmds,
                    error_cmds, pc, exited >>
    /\ UNCHANGED << diskVars, restarts, files0, stamp0, sel_hist, early_runs, copied >>
    /\ UNCHANGED ctlVars
    /\ UNCHANGED extVars
    /\ UNCHANGED start_log

\* an exception of a background task reaches the handler
BackgroundFault ==
    /\ pc # "init" /\ ~exited
    /\ nfaults < MaxFaults
    /\ exception_handler
    /\ UNCHANGED << interactive, autoinstall, autoinstall_config, early_cmds,
                    error_cmds, pc, start_exc, exited >>
    /\ UNCHANGED << diskVars, restarts, files0, stamp0, sel_hist, early_runs, copied >>
    /\ UNCHANGED ctlVars
    /\ UNCHANGED extVars
    /\ UNCHANGED start_log

\* _run_error_cmds, lines 404-405; the task ends at `end`: "done", or
\* "caught" when it came here through the except clause
error_cmds_finish(end) ==
    /\ IF ~Truthy(interactive) THEN update_state("ERROR") ELSE NoStateWrite
    /\ err_pc' = end

\* _run_error_cmds, lines 397-401: report._info_task is done
ErrorCmdsInfoDone ==
    /\ err_pc = "info" /\ ~exited
    /\ IF error_cmds
       THEN /\ err_pc' = "run"
            /\ NoStateWrite
       ELSE error_cmds_finish("done")
    /\ UNCHANGED << interactive, fatal_error, running_error_commands, autoinstall,
                    autoinstall_config, early_cmds, error_cmds, pc, start_exc,
                    exited >>
    /\ UNCHANGED << diskVars, histVars >>
    /\ UNCHANGED ctlVars
    /\ UNCHANGED extVars
    /\ UNCHANGED start_log

\* _run_error_cmds, lines 401, 404-405: Error.run() returned
ErrorCmdsRunDone ==
    /\ err_pc = "run" /\ ~exited
    /\ error_cmds_finish("done")
    /\ UNCHANGED << interactive, fatal_error, running_error_commands, autoinstall,
                    autoinstall_config, early_cmds, error_cmds, pc, start_exc,
                    exited >>
    /\ UNCHANGED << diskVars, histVars >>
    /\ UNCHANGED ctlVars
    /\ UNCHANGED extVars
    /\ UNCHANGED start_log

\* _run_error_cmds, lines 401-405: Error.run() raised into the except
\* clause, which logs it
ErrorCmdsRunRaise ==
    /\ err_pc = "run" /\ ~exited
    /\ error_cmds_finish("caught")
    /\ UNCHANGED << interactive, fatal_error, running_error_commands, autoinstall,
                    autoinstall_config, early_cmds, error_cmds, pc, start_exc,
                    exited >>
    /\ UNCHANGED << diskVars, histVars >>
    /\ UNCHANGED ctlVars
    /\ UNCHANGED extVars
    /\ UNCHANGED start_log

(***************************************************************************)
(* exit(), the install controller's state writes, re-execution.            *)
(***************************************************************************)
\* SubiquityServer.exit: the loop stops, nothing of this process runs after it
Exit ==
    /\ ~exited
    /\ update_state("EXITED")
    /\ exited' = TRUE
    /\ UNCHANGED << interactive, fatal_error, running_error_commands, autoinstall,
                    autoinstall_config, early_cmds, error_cmds, pc, err_pc,
                    start_exc >>
    /\ UNCHANGED << diskVars, histVars >>
    /\ UNCHANGED ctlVars
    /\ UNCHANGED extVars
    /\ UNCHANGED start_log

\* the state the installation moves to from s, once start() has reached WAITING
InstallSuccessor(s) ==
    CASE s = "WAITING" -> "NEEDS_CONFIRMATION"
      [] s = "NEEDS_CONFIRMATION" -> "RUNNING"
      [] s = "RUNNING" -> "DONE"
      [] OTHER -> s

\* the install controller moves the state on
InstallAdvance ==
    /\ ~exited
    /\ pc \in { "super_start", "sweep", "applying", "configuring", "done", "failed" }
    /\ state \in { "WAITING", "NEEDS_CONFIRMATION", "RUNNING" }
    /\ update_state(InstallSuccessor(state))
    /\ UNCHANGED << procVars, diskVars, histVars >>
    /\ UNCHANGED ctlVars
    /\ UNCHANGED extVars
    /\ UNCHANGED start_log

NoSelect ==
    [ called |-> FALSE, files_in |-> [ p \in Paths |-> NoFile ],
      files_out |-> [ p \in Paths |-> NoFile ], raised |-> FALSE,
      result |-> None ]

\* mark_configured_POST was not called
NoMark == [ called |-> FALSE, endpoint_names |-> {}, configured |-> << >> ]

\* no request is being handled
NoRequest ==
    [ phase |-> "none", target |-> 0, view |-> FALSE, state |-> "STARTING_UP",
      inter |-> FALSE, x_status |-> None, invoked |-> FALSE, faulted |-> FALSE,
      x_updated |-> None, x_error_report |-> FALSE, reports |-> 0 ]

IdleClient ==
    [ pc |-> "idle", cur |-> None, missed |-> 0, nrel |-> 0,
      persisted |-> FALSE ]

\* SubiquityServer.__init__ of a new process
NewProcess ==
    /\ state' = "STARTING_UP"
    /\ state_file' = "STARTING_UP"
    /\ state_event' = [value |-> FALSE]
    /\ interactive' = None
    /\ fatal_error' = 0
    /\ running_error_commands' = FALSE
    /\ autoinstall' = "unset"
    /\ autoinstall_config' = 0
    /\ early_cmds' = FALSE
    /\ error_cmds' = FALSE
    /\ pc' = "init"
    /\ err_pc' = "none"
    /\ start_exc' = FALSE
    /\ exited' = FALSE
    /\ clients' = [ c \in Clients |-> IdleClient ]
    /\ nfaults' = 0
    /\ early_runs' = 0
    /\ copied' = 0
    /\ sel_hist' = NoSelect
    /\ active' = [ n \in Names |-> TRUE ]
    /\ sweep_idx' = 0
    /\ sweep_start' = [ n \in Names |-> FALSE ]
    /\ sweep_log' = << >>
    /\ sections_reply' = << NoReply, NoReply >>
    /\ installer_user_name' = NoStr
    /\ installer_user_passwd' = NoStr
    /\ installer_user_passwd_kind' = "NONE"
    /\ request' = NoRequest
    /\ marked' = NoMark
    /\ start_log' = << >>

\* the server process is executed again on the same machine
Restart ==
    /\ restarts < MaxRestarts
    /\ restarts' = restarts + 1
    /\ NewProcess
    /\ files0' = files
    /\ stamp0' = stamp
    /\ passfile0' = passfile
    /\ UNCHANGED diskVars
    /\ UNCHANGED << passfile, default_user, opts_dry_run, pw_calls, updated >>

(***************************************************************************)
(* MetaController.mark_configured_POST                                     *)
(***************************************************************************)
\* attributes of the class API that are endpoints
APINames == { "network", "identity", "storage", "install", "shutdown" }

\* names a client may send
EndpointNames == { "network", "install", "storage", "nosuch" }

\* getattr(API, en, None): the endpoint, identified by its name, or None
getattr_API(en) == IF en \in APINames THEN en ELSE None

\* line 99: {getattr(API, en, None) for en in endpoint_names}
endpoints_of(endpoint_names) == { getattr_API(en) : en \in endpoint_names }

\* lines 100-102: the controllers configured() is called on, in the order
\* of the loop
mark_configured_POST(endpoint_names, insts) ==
    LET endpoints == endpoints_of(endpoint_names)
        hit(d) == d.endpoint \in endpoints
        hits == SelectSeq(insts, hit)
    IN [ i \in DOMAIN hits |-> hits[i].name ]

\* a client posts mark_configured with a list of endpoint names
MarkConfiguredPost ==
    /\ pc \notin { "init", "api" } /\ ~exited
    /\ \E endpoint_names \in SUBSET EndpointNames :
         marked' = [ called |-> TRUE, endpoint_names |-> endpoint_names,
                     configured |-> mark_configured_POST(endpoint_names, instances) ]
    /\ UNCHANGED << procVars, stateVars, clients, diskVars, histVars, ctlVars >>
    /\ UNCHANGED << pwVars, updated, request >>
    /\ UNCHANGED start_log

(***************************************************************************)
(* MetaController.status_GET                                               *)
(***************************************************************************)
\* values a client passes as cur: nothing, the state it last saw, which may
\* be the current one or an old one
CurValues == { None, state, "STARTING_UP" }

\* the ApplicationStatus.state a call returns when it runs to its return now
StatusNow == state

\* start_api_server() has returned: requests are served
api_up == pc \notin { "init", "api" }

\* lines 78-79: the call, up to the await; without a wait it returns StatusNow
\* at once and leaves nothing behind
StatusGet(c) ==
    /\ ~exited
    /\ api_up
    /\ clients[c].pc = "idle"
    /\ \E cur \in CurValues :
         clients' = [ clients EXCEPT ![c] =
            IF cur = state /\ ~state_event.value
            THEN [ IdleClient EXCEPT !.pc = "waiting", !.cur = cur ]
            ELSE IdleClient ]
    /\ UNCHANGED << procVars, stateVars, diskVars, histVars >>
    /\ UNCHANGED ctlVars
    /\ UNCHANGED extVars
    /\ UNCHANGED start_log

\* lines 80-89: the task runs again after its wait and returns StatusNow
StatusReturn(c) ==
    /\ ~exited
    /\ clients[c].pc = "released"
    /\ clients' = [ clients EXCEPT ![c] = IdleClient ]
    /\ UNCHANGED << procVars, stateVars, diskVars, histVars >>
    /\ UNCHANGED ctlVars
    /\ UNCHANGED extVars
    /\ UNCHANGED start_log

(***************************************************************************)
(* The request gate: SubiquityServer.middleware.  A request is addressed   *)
(* to the controller instances[target], or to something that is not a      *)
(* SubiquityController (target 0).                                         *)
(***************************************************************************)
\* INSTALL_MODEL_NAMES and POSTINSTALL_MODEL_NAMES, for the server variant
INSTALL_MODEL_NAMES ==
    { "debconf_selections", "filesystem", "kernel", "keyboard", "proxy",
      "source", "mirror", "network" }

POSTINSTALL_MODEL_NAMES ==
    { "drivers", "identity", "locale", "packages", "snaplist", "ssh",
      "ubuntu_pro", "userdata", "network" }

\* self.base_model.is_postinstall_only(model_name)
is_postinstall_only(model_name) ==
    /\ model_name \in POSTINSTALL_MODEL_NAMES
    /\ model_name \notin INSTALL_MODEL_NAMES

\* what a request may be addressed to
Targets == 0..Len(instances)

\* the gate asking for the confirmation in every state from
\* NEEDS_CONFIRMATION to DONE
override_status_ConfirmLater(target, view, now, st) ==
    IF target # 0 /\ view
    THEN IF ~now[instances[target].name] THEN "skip"
         ELSE IF /\ st \in { "NEEDS_CONFIRMATION", "RUNNING", "DONE" }
                 /\ is_postinstall_only(instances[target].model_name)
              THEN "confirm"
              ELSE None
    ELSE None

\* the gate looking at the state before it looks at interactive()
override_status_ConfirmFirst(target, view, now, st) ==
    IF target # 0 /\ view
    THEN IF /\ st = "NEEDS_CONFIRMATION"
            /\ is_postinstall_only(instances[target].model_name)
         THEN "confirm"
         ELSE IF ~now[instances[target].name] THEN "skip"
         ELSE None
    ELSE None

\* lines 427-435: override_status, None when the handler is to be invoked
override_status(target, view, now, st) ==
    IF target # 0 /\ view
    THEN IF ~now[instances[target].name] THEN "skip"
         ELSE IF /\ st = "NEEDS_CONFIRMATION"
                 /\ is_postinstall_only(instances[target].model_name)
              THEN "confirm"
              ELSE None
    ELSE None

\* the response without the report of the handler's exception
finish_response_NoReport(req, faulted, upd) ==
    [ req EXCEPT !.phase = "responded",
                 !.faulted = faulted,
                 !.x_updated = IF upd THEN "yes" ELSE "no" ]

\* lines 440-453: the headers of the response, and the ErrorReport made when
\* the response carries the handler's exception
finish_response(req, faulted, upd) ==
    [ req EXCEPT !.phase = "responded",
                 !.faulted = faulted,
                 !.x_updated = IF upd THEN "yes" ELSE "no",
                 !.x_error_report = faulted,
                 !.reports = IF faulted THEN @ + 1 ELSE @ ]

\* lines 427-439: a request arrives; it is answered at once with x-status, or
\* its handler is invoked
MiddlewareRequest ==
    /\ api_up /\ ~exited
    /\ request.phase # "handling"
    /\ \E target \in Targets, view \in BOOLEAN :
         LET o == override_status(target, view, InteractiveNow, state)
             req == [ NoRequest EXCEPT
                        !.target = target, !.view = view, !.state = state,
                        !.inter = (target # 0 /\ InteractiveNow[instances[target].name]),
                        !.x_status = o ]
         IN request' =
              IF o # None
              THEN finish_response(req, FALSE, updated)
              ELSE [ req EXCEPT !.phase = "handling", !.invoked = TRUE ]
    /\ UNCHANGED << procVars, stateVars, clients, diskVars, histVars, ctlVars >>
    /\ UNCHANGED << pwVars, updated, marked >>
    /\ UNCHANGED start_log

\* a handler that faults does not raise into the middleware: the response
\* it returns carries the exception (TRUE), or none (FALSE)
HandlerFaults == BOOLEAN

\* lines 439-453: the handler returns its response, with or without the
\* exception it caught
MiddlewareResponse ==
    /\ ~exited
    /\ request.phase = "handling"
    /\ \E faulted \in HandlerFaults :
         request' = finish_response(request, faulted, updated)
    /\ UNCHANGED << procVars, stateVars, clients, diskVars, histVars, ctlVars >>
    /\ UNCHANGED << pwVars, updated, marked >>
    /\ UNCHANGED start_log

(***************************************************************************)
(* Specifications.                                                         *)
(***************************************************************************)
NoFiles == [ p \in Paths |-> NoFile ]

\* the state after construction, on a machine with files fs, option opt,
\* default user du, passfile pf, opts.dry_run dry and self.updated upd
InitFull(fs, opt, du, pf, dry, upd) ==
    /\ state = "STARTING_UP"
    /\ state_file = "STARTING_UP"
    /\ state_event = [value |-> FALSE]
    /\ interactive = None
    /\ fatal_error = 0
    /\ running_error_commands = FALSE
    /\ autoinstall = "unset"
    /\ autoinstall_config = 0
    /\ early_cmds = FALSE
    /\ error_cmds = FALSE
    /\ pc = "init"
    /\ err_pc = "none"
    /\ start_exc = FALSE
    /\ exited = FALSE
    /\ clients = [ c \in Clients |-> IdleClient ]
    /\ stamp = FALSE
    /\ files = fs
    /\ opts_autoinstall = opt
    /\ nfaults = 0
    /\ restarts = 0
    /\ files0 = fs
    /\ stamp0 = FALSE
    /\ early_runs = 0
    /\ copied = 0
    /\ sel_hist = NoSelect
    /\ active = [ n \in Names |-> TRUE ]
    /\ sweep_idx = 0
    /\ sweep_start = [ n \in Names |-> FALSE ]
    /\ sweep_log = << >>
    /\ sections_reply = << NoReply, NoReply >>
    /\ installer_user_name = NoStr
    /\ installer_user_passwd = NoStr
    /\ installer_user_passwd_kind = "NONE"
    /\ passfile = pf
    /\ default_user = du
    /\ opts_dry_run = dry
    /\ pw_calls = << >>
    /\ passfile0 = pf
    /\ updated = upd
    /\ request = NoRequest
    /\ marked = NoMark
    /\ start_log = << >>

\* a machine that was not updated
InitMachine(fs, opt, du, pf, dry) == InitFull(fs, opt, du, pf, dry, FALSE)

\* a machine whose cloud-config names no default user
InitWith(fs, opt) == InitMachine(fs, opt, NoStr, NoPassFile, FALSE)

StartStep ==
    \/ StartLoadAll
    \/ StartCloudInitWait
    \/ StartConfigure
    \/ StartEarlyRun
    \/ StartEarlyDone
    \/ StartEarlyRaise
    \/ StartFullPhase

SweepStep ==
    \/ StartSweep
    \/ SweepApplyDone
    \/ SweepApplyRaise
    \/ SweepConfiguredDone

FaultStep ==
    \/ StartFault
    \/ BackgroundFault
    \/ ErrorCmdsInfoDone
    \/ ErrorCmdsRunDone
    \/ ErrorCmdsRunRaise

\* the state machine and its waiters: no autoinstall, or one on the media
InitState ==
    \E doc \in { NoFile, 1 } :
        InitWith([ NoFiles EXCEPT ![iso_autoinstall_path] = doc ], None)

NextState ==
    \/ StartStep
    \/ FaultStep
    \/ Exit
    \/ InstallAdvance
    \/ \E c \in Clients : StatusGet(c)
    \/ \E c \in Clients : StatusReturn(c)

SpecState == InitState /\ [][NextState]_vars

\* the options an operator may give
AutoinstallOpts == { None, "", arg_autoinstall_path }

\* the server from its first execution on, re-executed on the same machine
Init ==
    \E root \in { NoFile, 1 }, arg \in { NoFile, 4 }, iso \in { NoFile, 1, 3 },
       opt \in AutoinstallOpts :
        InitWith([ NoFiles EXCEPT ![root_autoinstall_path] = root,
                                  ![arg_autoinstall_path] = arg,
                                  ![iso_autoinstall_path] = iso ], opt)

Next ==
    \/ StartStep
    \/ SweepStep
    \/ FaultStep
    \/ Exit
    \/ Restart

Spec == Init /\ [][Next]_vars

\* loading: every document at the ISO path, with or without a root file,
\* across re-executions
InitLoad ==
    \E root \in { NoFile, 6 }, iso \in { NoFile } \cup DocIds :
        InitWith([ NoFiles EXCEPT ![root_autoinstall_path] = root,
                                  ![iso_autoinstall_path] = iso ], None)

NextLoad ==
    \/ StartStep
    \/ SweepStep
    \/ Restart

SpecLoad == InitLoad /\ [][NextLoad]_vars

\* faults: an interactive run, and runs with and without error commands
InitFaults ==
    \E doc \in { NoFile, 1, 5 } :
        InitWith([ NoFiles EXCEPT ![iso_autoinstall_path] = doc ], None)

NextFaults ==
    \/ StartStep
    \/ SweepStep
    \/ FaultStep
    \/ Restart

SpecFaults == InitFaults /\ [][NextFaults]_vars

\* the API of a running server: clients mark controllers configured
NextMark ==
    \/ StartStep
    \/ MarkConfiguredPost
    \/ Restart

SpecMark == InitState /\ [][NextMark]_vars

\* start() on every combination of candidate files and every option
InitSelect ==
    \E fs \in [ Paths -> { NoFile, 1, 2, 4 } ], opt \in AutoinstallOpts :
        InitWith(fs, opt)

SpecSelect == InitSelect /\ [][StartStep]_vars

\* the controllers: an autoinstall with a wildcard, with a list, or none
InitControllers ==
    \E doc \in { NoFile, 2, 4 } :
        InitWith([ NoFiles EXCEPT ![iso_autoinstall_path] = doc ], None)

NextSweep ==
    \/ StartStep
    \/ SweepStep
    \/ \E n \in Names : Toggle(n)

SpecSweep == InitControllers /\ [][NextSweep]_vars

NextSections ==
    \/ StartStep
    \/ \E n \in Names : Toggle(n)
    \/ InteractiveSectionsGet

SpecSections == InitControllers /\ [][NextSections]_vars

\* the request gate: an autoinstall with a wildcard, with a list, or none
InitRequests ==
    \E doc \in { NoFile, 2, 4 }, upd \in BOOLEAN :
        InitFull([ NoFiles EXCEPT ![iso_autoinstall_path] = doc ], None,
                 NoStr, NoPassFile, FALSE, upd)

NextRequests ==
    \/ StartStep
    \/ InstallAdvance
    \/ \E n \in Names : Toggle(n)
    \/ MiddlewareRequest
    \/ MiddlewareResponse

SpecRequests == InitRequests /\ [][NextRequests]_vars

\* passfiles a machine may begin with: none, or one this server wrote
InitPassFiles ==
    { NoPassFile } \cup
    { passfile_contents(n, p) :
        n \in StampNames, p \in RandPasswords \cup (LogPasswords \ { NoStr }) }

\* the installer user: with or without a default user, a passfile, dry-run
InitPassword ==
    \E du \in UserNames \cup { NoStr }, pf \in InitPassFiles, dry \in BOOLEAN :
        InitMachine(NoFiles, None, du, pf, dry)

\* start() up to its call of set_installer_password, further calls and
\* re-executions
NextPassword ==
    \/ StartLoadAll
    \/ StartCloudInitWait
    \/ StartConfigure
    \/ SetInstallerPasswordAgain
    \/ Restart

SpecPassword == InitPassword /\ [][NextPassword]_vars

(***************************************************************************)
(* Properties of the state machine and its waiters (SpecState).            *)
(***************************************************************************)
\* client c's status_GET returns in this step
Returns(c) ==
    /\ clients[c].pc = "released"
    /\ clients'[c].pc = "idle"
    /\ restarts' = restarts

\* C1: a status_GET blocked on the state is released by the next update_state
\* call: no update_state call returns leaving it blocked, and its future is
\* completed exactly once.
C1_ReleasedOncePerWrite ==
    \A c \in Clients :
        /\ clients[c].pc = "waiting" =>
              clients[c].missed = 0 /\ clients[c].nrel = 0
        /\ clients[c].pc = "released" =>
              clients[c].missed = 0 /\ clients[c].nrel = 1

\* every client was blocked and one state write released them all
C1_Witness ==
    /\ \A c \in Clients : clients[c].pc = "released" /\ clients[c].nrel = 1
    /\ state = "WAITING"

\* C2: a status_GET(cur) that blocked because cur was the current state
\* returns a status whose state differs from cur.
C2_BlockedCallSeesChange ==
    [][ \A c \in Clients : Returns(c) => StatusNow # clients[c].cur ]_vars

\* C3: the state file holds the new state when a waiter is released and when
\* a released waiter runs, and it holds EXITED once exit() has been called.
C3_PersistedBeforeRelease ==
    /\ \A c \in Clients :
          clients[c].pc = "released" =>
              clients[c].persisted /\ state_file = state
    /\ exited => state_file = "EXITED"

\* exit() released a waiter
C3_Witness ==
    /\ exited
    /\ \E c \in Clients : clients[c].pc = "released" /\ clients[c].persisted

\* C4: within a process the state only moves forward in the order of the
\* enumeration or jumps to ERROR, and nothing is written after EXITED.
C4_StateMonotonic ==
    [][ restarts' = restarts =>
          \/ state' = state
          \/ /\ state # "EXITED"
             /\ state' = "ERROR" \/ Rank(state') > Rank(state) ]_vars

(***************************************************************************)
(* Properties of select_autoinstall and of start() (SpecSelect, Spec).     *)
(***************************************************************************)
\* the content the precedence rule names, for the files select_autoinstall
\* saw: root, then the operator's path, then cloud-init's, then the media's
ExpectedContent ==
    LET fin == sel_hist.files_in IN
    IF fin[root_autoinstall_path] # NoFile THEN fin[root_autoinstall_path]
    ELSE IF opts_autoinstall = arg_autoinstall_path
            /\ fin[arg_autoinstall_path] # NoFile
         THEN fin[arg_autoinstall_path]
    ELSE IF fin[cloud_autoinstall_path] # NoFile THEN fin[cloud_autoinstall_path]
    ELSE fin[iso_autoinstall_path]

\* C5: with the operator's path unset or existing, the resolved autoinstall is
\* the root file holding the content of the first existing candidate in the
\* order root, operator, cloud-init, media; with no candidate it is None.
C5_SourcePrecedence ==
    ( /\ sel_hist.called
      /\ \/ opts_autoinstall = None
         \/ /\ opts_autoinstall = arg_autoinstall_path
            /\ sel_hist.files_in[arg_autoinstall_path] # NoFile )
    => /\ ~sel_hist.raised
       /\ IF ExpectedContent = NoFile
          THEN /\ sel_hist.result = None
               /\ sel_hist.files_out = sel_hist.files_in
               /\ autoinstall_config = 0
          ELSE /\ sel_hist.result = root_autoinstall_path
               /\ sel_hist.files_out[root_autoinstall_path] = ExpectedContent
               /\ pc \in { "early_sleep", "early_run" } =>
                     autoinstall_config = ExpectedContent

\* the operator's file wins over cloud-init's and the media's, with no root file
C5_Witness ==
    /\ sel_hist.called
    /\ opts_autoinstall = arg_autoinstall_path
    /\ sel_hist.files_in[root_autoinstall_path] = NoFile
    /\ sel_hist.files_in[arg_autoinstall_path] = 1
    /\ sel_hist.files_in[cloud_autoinstall_path] = 2
    /\ sel_hist.files_in[iso_autoinstall_path] = 4
    /\ sel_hist.files_out[root_autoinstall_path] = 1
    /\ autoinstall_config = 1

\* C6: with an empty autoinstall option select_autoinstall returns None and
\* copies nothing whatever files exist, no config is loaded and the run is
\* interactive.
C6_EmptyOptionDisables ==
    opts_autoinstall = "" =>
        /\ copied = 0
        /\ autoinstall_config = 0
        /\ early_runs = 0
        /\ IF sel_hist.called
           THEN /\ ~sel_hist.raised
                /\ sel_hist.result = None
                /\ autoinstall = None
                /\ sel_hist.files_out = sel_hist.files_in
                /\ interactive = "True"
           ELSE interactive = None

\* disabled although the root file and the media file exist
C6_Witness ==
    /\ opts_autoinstall = ""
    /\ sel_hist.called
    /\ sel_hist.files_in[root_autoinstall_path] # NoFile
    /\ sel_hist.files_in[iso_autoinstall_path] # NoFile
    /\ state = "WAITING"
    /\ interactive = "True"

\* C7: with an operator's path that does not exist select_autoinstall raises,
\* nothing is copied, and start() ends there: no early commands, no sweep, and
\* the state becomes neither EARLY_COMMANDS nor WAITING.
C7_MissingOptionFails ==
    ( /\ opts_autoinstall = arg_autoinstall_path
      /\ sel_hist.called
      /\ sel_hist.files_in[arg_autoinstall_path] = NoFile )
    => /\ sel_hist.raised
       /\ sel_hist.files_out = sel_hist.files_in
       /\ copied = 0
       /\ pc = "failed"
       /\ autoinstall_config = 0
       /\ early_runs = 0
       /\ sweep_log = << >>
       /\ state \in { "CLOUD_INIT_WAIT", "ERROR", "EXITED" }

\* it failed although the root file and the media file exist
C7_Witness ==
    /\ opts_autoinstall = arg_autoinstall_path
    /\ sel_hist.called
    /\ sel_hist.files_in[arg_autoinstall_path] = NoFile
    /\ sel_hist.files_in[root_autoinstall_path] # NoFile
    /\ sel_hist.files_in[iso_autoinstall_path] # NoFile
    /\ sel_hist.raised
    /\ state = "ERROR"

\* C8: a process that begins with the early-commands stamp present never
\* invokes Early.run() and never enters EARLY_COMMANDS.
C8_StampedEarlyNeverReruns ==
    stamp0 =>
        /\ early_runs = 0
        /\ state # "EARLY_COMMANDS"
        /\ pc \notin { "early_sleep", "early_run", "early_stamped" }

\* a re-executed server loaded a config that declares early commands and went
\* on to WAITING without running them
C8_Witness ==
    /\ stamp0
    /\ restarts >= 1
    /\ autoinstall_config # 0
    /\ early_cmds
    /\ state = "WAITING"

(***************************************************************************)
(* Properties of the controllers (SpecSections, SpecSweep).                *)
(***************************************************************************)
\* the place in the registry of the controller with this autoinstall key
KeyPlace(key) ==
    CHOOSE i \in DOMAIN instances : instances[i].autoinstall_key = key

\* what reply r must be, given the config and the controllers that were
\* interactive when it was made
ReplyAsSpecified(r) ==
    IF r.config = 0
    THEN ~r.has
    ELSE LET isec == Documents[r.config].isec IN
         IF isec.has /\ isec.val = << "*" >>
         THEN /\ r.has
              /\ { r.val[k] : k \in DOMAIN r.val } =
                    { instances[i].autoinstall_key :
                        i \in { j \in DOMAIN instances :
                                  /\ instances[j].name \in r.seen
                                  /\ instances[j].autoinstall_key # None } }
              /\ \A i, j \in DOMAIN r.val :
                    i < j => KeyPlace(r.val[i]) < KeyPlace(r.val[j])
         ELSE r.has = isec.has /\ r.val = isec.val

\* C9: interactive_sections_GET returns None without a config, the keys, in
\* registry order, of the controllers interactive at the call that have a key
\* when interactive-sections is ["*"], and the configured value otherwise.
C9_SectionsExpansion ==
    \A k \in DOMAIN sections_reply :
        sections_reply[k].called => ReplyAsSpecified(sections_reply[k])

\* two calls under the same config, a controller having changed in between
C9_Witness ==
    /\ sections_reply[1].called
    /\ sections_reply[1].config = sections_reply[2].config
    /\ sections_reply[1].val = << "network", "identity" >>
    /\ sections_reply[2].val = << "identity" >>
    /\ "Install" \in sections_reply[2].seen

\* C10: the sweep calls apply_autoinstall_config, and configured() after it,
\* only on a controller whose interactive() was false when the sweep reached
\* it, and skips one whose interactive() was true then.
C10_SweepSkipsInteractive ==
    \A k \in DOMAIN sweep_log :
        /\ sweep_log[k].op = "apply" => ~sweep_log[k].inter
        /\ sweep_log[k].op = "skip" => sweep_log[k].inter
        /\ sweep_log[k].op = "configured" =>
              /\ k > 1
              /\ sweep_log[k - 1].op = "apply"
              /\ sweep_log[k - 1].c = sweep_log[k].c

\* a controller not interactive when the sweep began is skipped after an
\* earlier one was applied
C10_Witness ==
    \E k \in DOMAIN sweep_log :
        /\ sweep_log[k].op = "skip"
        /\ ~sweep_start[sweep_log[k].c]
        /\ \E j \in 1..(k - 1) : sweep_log[j].op = "configured"

(***************************************************************************)
(* Properties of set_installer_password (SpecPassword).                    *)
(***************************************************************************)
\* (name, passwd, kind) a call left
Triple(call) == << call.name, call.passwd, call.kind >>

ViewProbe == request.phase # "none" /\ request.view /\ request.target # 0

\* C12: a view probe addressed to a controller that is interactive and whose
\* model is post-install-only is answered with x-status confirm, the handler
\* not invoked, when the state is NEEDS_CONFIRMATION; in any other state its
\* handler is invoked.
C12_ConfirmGate ==
    ( /\ ViewProbe
      /\ request.inter
      /\ is_postinstall_only(instances[request.target].model_name) )
    => IF request.state = "NEEDS_CONFIRMATION"
       THEN /\ request.x_status = "confirm"
            /\ ~request.invoked
            /\ request.phase = "responded"
       ELSE /\ request.x_status = None
            /\ request.invoked

\* the probe of the identity view was answered with confirm
C12_Witness ==
    /\ ViewProbe
    /\ instances[request.target].name = "Identity"
    /\ request.inter
    /\ request.state = "NEEDS_CONFIRMATION"
    /\ request.x_status = "confirm"
    /\ ~request.invoked

\* C13: a view probe addressed to a controller that is not interactive is
\* answered with x-status skip, the handler not invoked, in every state; a
\* request that is not a view probe, or not addressed to a stage controller,
\* has its handler invoked.
C13_SkipGate ==
    /\ (ViewProbe /\ ~request.inter) =>
          /\ request.x_status = "skip"
          /\ ~request.invoked
          /\ request.phase = "responded"
    /\ (request.phase # "none" /\ ~ViewProbe) =>
          /\ request.x_status = None
          /\ request.invoked

\* skip, not confirm, for a post-install-only controller in NEEDS_CONFIRMATION
C13_Witness ==
    /\ ViewProbe
    /\ ~request.inter
    /\ is_postinstall_only(instances[request.target].model_name)
    /\ request.state = "NEEDS_CONFIRMATION"
    /\ request.x_status = "skip"

BeforeFullPhase ==
    pc \in { "init", "api", "cloudinit", "early_sleep", "early_run",
             "early_stamped" }

\* C15: interactive is None until the full-phase load; from then on it is
\* True without a config, and with a config True exactly when its
\* interactive-sections is present and not empty; it is no longer None when
\* the state is WAITING.
C15_InteractiveDerivation ==
    /\ BeforeFullPhase => interactive = None
    /\ pc \in { "super_start", "applying", "configuring", "done" } =>
          interactive # None
    /\ state = "WAITING" => interactive # None
    /\ interactive # None =>
          IF autoinstall_config = 0
          THEN interactive = "True"
          ELSE LET isec == Documents[autoinstall_config].isec IN
               /\ (isec.has /\ Len(isec.val) > 0) => interactive = "True"
               /\ (~isec.has \/ Len(isec.val) = 0) => interactive = "False"

\* a config whose interactive-sections is the empty list: not interactive
C15_Witness ==
    /\ state = "WAITING"
    /\ autoinstall_config # 0
    /\ Documents[autoinstall_config].isec.has
    /\ Documents[autoinstall_config].isec.val = << >>
    /\ interactive = "False"

\* the top-level exception handler runs in this step
HandlerRuns == nfaults' = nfaults + 1

\* the _run_error_cmds task ends in this step
ErrorCmdsEnd ==
    err_pc \notin { "done", "caught" } /\ err_pc' \in { "done", "caught" }

\* C16, as stated: a fault that reaches the handler is recorded in
\* fatal_error; in an interactive run the handler leaves the state as it is,
\* in a non-interactive run the state is ERROR once the error commands are
\* over.
C16_InteractiveFaultKeepsState ==
    [][ /\ HandlerRuns =>
              /\ fatal_error' # 0
              /\ Truthy(interactive) => state' = state
        /\ (ErrorCmdsEnd /\ ~Truthy(interactive)) => state' = "ERROR" ]_vars

\* C16, as the code has it: the handler records the fault in fatal_error and
\* leaves start() where it is; in an interactive run it writes ERROR at once,
\* otherwise it writes nothing and ERROR is written when the error-commands
\* task ends, if the run is not interactive then.
C16_FaultPolicy ==
    [][ /\ HandlerRuns =>
              /\ fatal_error' # 0
              /\ pc' = pc
              /\ Truthy(interactive) => state' = "ERROR"
              /\ ~Truthy(interactive) => state' = state
        /\ ErrorCmdsEnd =>
              /\ ~Truthy(interactive) => state' = "ERROR"
              /\ Truthy(interactive) => state' = state ]_vars

\* an interactive run: a controller's apply_autoinstall_config raised and the
\* state is ERROR before the error-commands task has done anything
C16_Witness ==
    /\ interactive = "True"
    /\ pc = "failed"
    /\ sweep_log # << >>
    /\ fatal_error # 0
    /\ err_pc = "info"
    /\ state = "ERROR"

\* the steps of start() in the order the claim gives them
StartOrder ==
    << "load_all", "start_api_server", "CLOUD_INIT_WAIT", "wait_for_cloudinit",
       "set_installer_password", "select_autoinstall", "load_early",
       "early_setup", "validate", "Early.setup_autoinstall", "EARLY_COMMANDS",
       "Early.run", "stamp", "load_full", "setup_autoinstall", "interactive",
       "load_state", "WAITING", "super_start" >>

StepRank ==
    [ op \in { StartOrder[i] : i \in DOMAIN StartOrder } |->
        CHOOSE i \in DOMAIN StartOrder : StartOrder[i] = op ]

\* the place of each controller in the registry; the controllers the early
\* phase names are not among the instances of the model
Place ==
    [ c \in Names \cup { "Reporting", "Error" } |->
        IF c \in Names
        THEN CHOOSE i \in DOMAIN instances : instances[i].name = c
        ELSE 0 ]

\* the entries of start_log with this op
Entries(op) == { i \in DOMAIN start_log : start_log[i].op = op }

\* entry b of start_log may follow entry a
MayFollow(a, b) ==
    \/ StepRank[a.op] < StepRank[b.op]
    \/ /\ a.op = b.op
       /\ \/ a.op = "early_setup"
          \/ a.op \in { "setup_autoinstall", "load_state" } /\ Place[a.c] < Place[b.c]

\* C17: start() goes through its steps in the order load_all, API server,
\* CLOUD_INIT_WAIT, cloud-init wait, password, source selection, early-phase
\* load, early commands, full-phase load with setup_autoinstall on every
\* controller in registry order, load_state on every controller once,
\* WAITING, and the sweep after all of it.
C17_StartupOrder ==
    /\ \A i \in 1..(Len(start_log) - 1) :
          MayFollow(start_log[i], start_log[i + 1])
    /\ Entries("WAITING") # {} =>
          /\ { start_log[i].c : i \in Entries("load_state") } = Names
          /\ autoinstall_config # 0 =>
                { start_log[i].c : i \in Entries("setup_autoinstall") } = Names
          /\ \A op \in { "load_all", "start_api_server", "CLOUD_INIT_WAIT",
                         "wait_for_cloudinit", "set_installer_password",
                         "select_autoinstall", "load_early", "load_full" } :
                Entries(op) # {}
    /\ Entries("CLOUD_INIT_WAIT") # {} =>
          Entries("load_all") # {} /\ Entries("start_api_server") # {}
    /\ state \in { "CLOUD_INIT_WAIT", "EARLY_COMMANDS", "WAITING" } =>
          Entries(state) # {}
    /\ Entries("Early.run") # {} => Entries("EARLY_COMMANDS") # {}
    /\ sweep_log # << >> =>
          Entries("WAITING") # {} /\ Entries("super_start") # {}

\* early commands ran, the config was set up on every controller, and the
\* sweep has applied a controller
C17_Witness ==
    /\ Entries("Early.run") # {}
    /\ Entries("stamp") # {}
    /\ Cardinality(Entries("setup_autoinstall")) = Len(instances)
    /\ Cardinality(Entries("load_state")) = Len(instances)
    /\ \E k \in DOMAIN sweep_log : sweep_log[k].op = "configured"

(***************************************************************************)
(* The order of the sweep (SpecSweep).                                     *)
(***************************************************************************)
\* entry b of sweep_log may come right after entry a
SweepMayFollow(a, b) ==
    \/ /\ a.op \in { "skip", "configured" }
       /\ b.op \in { "skip", "apply" }
       /\ Place[a.c] < Place[b.c]
    \/ /\ a.op = "apply"
       /\ b.op \in { "configured", "raise" }
       /\ a.c = b.c

\* C18: the sweep visits the controllers strictly in registry order; on a
\* controller that is not interactive apply_autoinstall_config and then
\* configured() are done before the next controller is examined; when
\* apply_autoinstall_config raises, configured() is not called on that
\* controller and nothing of the sweep comes after.
C18_SweepOrder ==
    /\ sweep_log # << >> => sweep_log[1].op \in { "skip", "apply" }
    /\ \A k \in 1..(Len(sweep_log) - 1) :
          SweepMayFollow(sweep_log[k], sweep_log[k + 1])
    /\ \A k \in DOMAIN sweep_log :
          sweep_log[k].op = "raise" => k = Len(sweep_log) /\ pc = "failed"
    /\ pc = "done" =>
          { sweep_log[k].c : k \in DOMAIN sweep_log } = Names

\* the second controller applied raised after the first was configured, and
\* the process has gone on
C18_Witness ==
    /\ Len(sweep_log) > 3
    /\ sweep_log[Len(sweep_log)].op = "raise"
    /\ \E k \in DOMAIN sweep_log : sweep_log[k].op = "configured"
    /\ \E k \in DOMAIN sweep_log : sweep_log[k].op = "skip"
    /\ Place[sweep_log[Len(sweep_log)].c] < Len(instances)

(***************************************************************************)
(* Loading the configuration (SpecLoad).                                   *)
(***************************************************************************)
\* the tree is an object with an integer version equal to 1
ObjectVersion1(d) ==
    /\ Documents[d].object
    /\ Documents[d].version.has
    /\ Documents[d].version.integer
    /\ Documents[d].version.val = 1

\* the documents the early-phase load of this process read
EarlyLoaded == { start_log[i].doc : i \in Entries("load_early") } \ { 0 }

\* C19: early commands run only after the schema validation of the loaded
\* config has passed; when the config is not an object with an integer
\* version equal to 1 the early-phase load fails, Early.setup_autoinstall
\* and Early.run are not called and the state is neither EARLY_COMMANDS nor
\* WAITING in that process.
C19_ValidationGatesEarly ==
    /\ \A d \in EarlyLoaded :
          ~ObjectVersion1(d) =>
             /\ pc = "failed" /\ start_exc
             /\ Entries("Early.setup_autoinstall") = {}
             /\ Entries("EARLY_COMMANDS") = {}
             /\ Entries("Early.run") = {}
             /\ Entries("WAITING") = {}
             /\ early_runs = 0
             /\ state \notin { "EARLY_COMMANDS", "WAITING" }
    /\ Entries("Early.run") # {} =>
          /\ \A d \in EarlyLoaded : ObjectVersion1(d)
          /\ \E v \in Entries("validate") :
                \A r \in Entries("Early.run") : v < r

\* the early-phase load read a config that has early commands and version 2
C19_Witness ==
    /\ pc = "failed"
    /\ \E d \in EarlyLoaded :
          /\ Documents[d].early
          /\ Documents[d].object
          /\ Documents[d].version = Version(2)
    /\ Entries("validate") # {}

\* the documents the full-phase load of this process read, and the ones the
\* derivation of interactive read
FullLoaded == { start_log[i].doc : i \in Entries("load_full") }

DerivedFrom == { start_log[i].doc : i \in Entries("interactive") }

\* C20 as stated: the tree held after the early-phase load is the tree the
\* full phase ingests and the derivation reads, early commands or not.
C20_TreeKeptAcrossPhases ==
    Entries("load_full") # {} =>
        /\ FullLoaded = { start_log[i].doc : i \in Entries("load_early") }
        /\ DerivedFrom = FullLoaded

\* C20 as the code has it: each phase reads the resolved file anew, so the
\* full phase ingests the file as the early commands left it; it is the
\* tree of the early phase when no early commands ran in between; the
\* derivation reads the tree of the full phase, which is the one held from
\* then on.
C20_TreeOfResolvedFile ==
    Entries("load_full") # {} =>
        /\ Cardinality(FullLoaded) = 1
        /\ DerivedFrom = FullLoaded
        /\ FullLoaded = { autoinstall_config }
        /\ autoinstall \in Paths => FullLoaded = { files[autoinstall] }
        /\ autoinstall \notin Paths => FullLoaded = { 0 }
        /\ Entries("Early.run") = {} =>
              FullLoaded = { start_log[i].doc : i \in Entries("load_early") }

\* early commands ran and rewrote the resolved file: the full phase has
\* ingested another tree than the early phase held
C20_Witness ==
    /\ state = "WAITING"
    /\ Entries("Early.run") # {}
    /\ \E e \in Entries("load_early"), f \in Entries("load_full") :
          /\ start_log[e].doc # 0
          /\ start_log[f].doc # start_log[e].doc
          /\ start_log[f].doc = files[root_autoinstall_path]

(***************************************************************************)
(* Source resolution across re-executions (Spec).                          *)
(***************************************************************************)
\* the select_autoinstall call of this process returned the root path
SelectSucceeded ==
    sel_hist.called /\ ~sel_hist.raised /\ sel_hist.result = root_autoinstall_path

\* what a re-executed process would find: the files as they are, after any
\* outcome of its cloud-init wait
FilesAtNextSelect ==
    { wait_for_cloudinit(opts_dry_run, ci, files, NoStr, default_user).files :
        ci \in CloudInitOutcomes }

\* C21: after a successful select_autoinstall the root file exists and holds
\* the winning candidate's content; a second select_autoinstall with the
\* same option returns the root path again and leaves the root file, and
\* every other file, as it found them.
C21_SelectionRepeats ==
    /\ SelectSucceeded =>
          /\ sel_hist.files_out[root_autoinstall_path] # NoFile
          /\ sel_hist.files_out[root_autoinstall_path] = ExpectedContent
          /\ sel_hist.files_in[root_autoinstall_path] # NoFile =>
                sel_hist.files_out = sel_hist.files_in
          /\ \A fs \in FilesAtNextSelect :
                LET again == select_autoinstall(opts_autoinstall, fs) IN
                /\ ~again.raised
                /\ again.result = root_autoinstall_path
                /\ again.files = fs
    /\ ( /\ restarts > 0
         /\ files0[root_autoinstall_path] # NoFile
         /\ sel_hist.called
         /\ \/ opts_autoinstall = None
            \/ exists(files0, opts_autoinstall) ) =>
          /\ SelectSucceeded
          /\ sel_hist.files_out[root_autoinstall_path] = files0[root_autoinstall_path]
          /\ sel_hist.files_out = sel_hist.files_in

\* a re-executed process has selected again, after the first one copied the
\* operator's file to the root path
C21_Witness ==
    /\ restarts > 0
    /\ SelectSucceeded
    /\ opts_autoinstall = arg_autoinstall_path
    /\ files0[root_autoinstall_path] = 4
    /\ sel_hist.files_out[root_autoinstall_path] = 4

(***************************************************************************)
(* The passfile as the source of the credentials (SpecPassword).           *)
(***************************************************************************)
\* the calls of set_installer_password that found a passfile
StampedCalls == { i \in DOMAIN pw_calls : pw_calls[i].file_in # NoPassFile }

\* the call took name and password from the passfile, split at the first
\* colon, with kind KNOWN, and did nothing else
FromStamp(c) ==
    /\ c.kind = "KNOWN"
    /\ split_once(c.file_in).ok
    /\ c.name = split_once(c.file_in).name
    /\ c.passwd = split_once(c.file_in).passwd
    /\ c.file_out = c.file_in
    /\ ~c.chpasswd /\ ~c.wrote /\ ~c.generated

\* C22 as stated: every call that finds a passfile takes name and password
\* from it with kind KNOWN, whatever cloud-init gave for the default user,
\* no name included.
C22_StampAlwaysWins ==
    \A i \in StampedCalls : FromStamp(pw_calls[i])

\* C22 as the code has it: a call that finds a passfile and has a user name
\* takes name and password from the file with kind KNOWN, whatever that name
\* was; a call without a user name returns before it looks at the passfile
\* and leaves name, password and kind as they were.
C22_StampWinsForKnownUser ==
    \A i \in StampedCalls :
        LET c == pw_calls[i] IN
        IF c.name_in # NoStr
        THEN FromStamp(c)
        ELSE /\ c.name = NoStr /\ c.passwd = NoStr /\ c.kind = "NONE"
             /\ c.file_out = c.file_in
             /\ ~c.chpasswd /\ ~c.wrote /\ ~c.generated

\* one process had no user name and a passfile; another had a user name
\* other than the one in the passfile and took the passfile's
C22_Witness ==
    /\ \E i \in StampedCalls : pw_calls[i].name_in = NoStr
    /\ \E j \in StampedCalls :
          /\ pw_calls[j].name_in # NoStr
          /\ pw_calls[j].name # pw_calls[j].name_in
          /\ pw_calls[j].kind = "KNOWN"

(***************************************************************************)
(* The error-commands task (SpecFaults).                                   *)
(***************************************************************************)
\* the step stays within one process
SameProcess == restarts' = restarts

\* a _run_error_cmds task is started in this step
ErrorTaskStarts == err_pc' = "info" /\ err_pc # "info"

\* the except clause of _run_error_cmds is taken in this step
ErrorCmdsCaught == err_pc = "run" /\ err_pc' = "caught"

\* C23: however many faults reach the handler, a process starts the
\* _run_error_cmds task at most once: it is started only when none was
\* started before, the guard is never reset and the task never goes back.  A
\* failure of the error commands is caught, leaves fatal_error as it was, a
\* report, and a run that is not interactive goes to ERROR all the same.
C23_ErrorCmdsOnce ==
    [][ /\ (err_pc # "none") = running_error_commands
        /\ ErrorTaskStarts =>
              /\ err_pc = "none"
              /\ ~running_error_commands /\ running_error_commands'
              /\ HandlerRuns
        /\ SameProcess =>
              /\ running_error_commands => running_error_commands'
              /\ err_pc = "run" => err_pc' \in { "run", "done", "caught" }
              /\ err_pc \in { "done", "caught" } => err_pc' = err_pc
              /\ (HandlerRuns /\ running_error_commands) => err_pc' = err_pc
        /\ ErrorCmdsCaught =>
              /\ fatal_error' = fatal_error
              /\ fatal_error # 0
              /\ ~Truthy(interactive) => state' = "ERROR" ]_vars

\* a second fault came while the error commands ran, the commands failed and
\* the run, not interactive, is in ERROR
C23_Witness ==
    /\ err_pc = "caught"
    /\ nfaults >= 2
    /\ fatal_error # 0
    /\ interactive = "False"
    /\ state = "ERROR"

(***************************************************************************)
(* mark_configured_POST (SpecMark).                                        *)
(***************************************************************************)
\* the controllers whose endpoint is an API endpoint named in the request,
\* in registry order
NamedControllers(endpoint_names) ==
    LET named(d) == d.endpoint # None /\ d.endpoint \in (endpoint_names \cap APINames)
        hits == SelectSeq(instances, named)
    IN [ i \in DOMAIN hits |-> hits[i].name ]

\* C24: mark_configured_POST calls configured() on exactly the controllers
\* whose endpoint is one of the API endpoints named in the request, in
\* registry order; a name that matches no API endpoint marks no controller,
\* not those either that have no endpoint of their own.
C24_MarksNamedOnly ==
    marked.called =>
        marked.configured = NamedControllers(marked.endpoint_names)

(***************************************************************************)
(* The early-commands gate and its stamp (SpecLoad).                       *)
(***************************************************************************)
\* the gate of lines 670-672 as this process met it: the early-phase load
\* gave a config, the config declares early commands, no stamp was there
GateTaken ==
    /\ ~stamp0
    /\ \E d \in EarlyLoaded : ObjectVersion1(d) /\ Documents[d].early

\* Early.run() was invoked in this process and has not returned normally
EarlyUnfinished ==
    \/ pc \in { "early_sleep", "early_run" }
    \/ pc = "failed" /\ Entries("Early.run") # {} /\ Entries("stamp") = {}

\* the root file a process begins with declares early commands and passes
\* the validation
RootDeclaresEarly ==
    /\ files0[root_autoinstall_path] # NoFile
    /\ ObjectVersion1(files0[root_autoinstall_path])
    /\ Documents[files0[root_autoinstall_path]].early

EarlyGateInv ==
    /\ (Entries("EARLY_COMMANDS") # {}) = GateTaken
    /\ state = "EARLY_COMMANDS" => GateTaken
    /\ stamp0 => stamp
    /\ (stamp /\ ~stamp0) =>
          /\ \E r \in Entries("Early.run"), w \in Entries("stamp") : r < w
          /\ ~EarlyUnfinished
    /\ EarlyUnfinished => ~stamp
    /\ ( /\ restarts > 0 /\ ~stamp0 /\ RootDeclaresEarly
         /\ Entries("load_early") # {} ) =>
          /\ Entries("EARLY_COMMANDS") # {}
          /\ pc # "early_sleep" => Entries("Early.run") # {} /\ early_runs = 1

EarlyGateStep ==
    /\ (state = "CLOUD_INIT_WAIT" /\ state' # state /\ SameProcess) =>
          IF GateTaken' THEN state' = "EARLY_COMMANDS" ELSE state' = "WAITING"
    /\ (state = "EARLY_COMMANDS" /\ state' # state /\ SameProcess) =>
          state' = "WAITING" /\ stamp'
    /\ (stamp' /\ ~stamp) => pc = "early_run" /\ pc' = "early_stamped"

\* C25: the stamp is written only after Early.run() has returned; the state
\* becomes EARLY_COMMANDS exactly when a config was loaded, it declares early
\* commands and the stamp is absent; when Early.run() fails or the process
\* is replaced while the commands run there is no stamp, and the next
\* process enters EARLY_COMMANDS and invokes Early.run() again; when the
\* gate is not taken the state goes from CLOUD_INIT_WAIT to WAITING.
C25_EarlyGateAndStamp == []EarlyGateInv /\ [][EarlyGateStep]_vars

\* an earlier process left the copied config behind without the stamp; this
\* process has run the early commands again, to their end
C25_Witness ==
    /\ restarts > 0
    /\ ~stamp0
    /\ RootDeclaresEarly
    /\ Entries("Early.run") # {}
    /\ stamp
    /\ state = "WAITING"

====
